---- MODULE Spec2Model ----
(***************************************************************************)
(* Model of api/util.go: the JSON codecs of U64, HexBytes and GUID.        *)
(*                                                                         *)
(* Byte strings ([]byte and string of the Go code) are sequences of byte   *)
(* values 0..255.  A uint64 is a sequence of four 16-bit limbs, least      *)
(* significant first, so that 64-bit arithmetic keeps its width.           *)
(***************************************************************************)
EXTENDS Integers, Sequences, FiniteSets, TLC

VARIABLES
    live,   \* which receiver the caller holds: "U64", "HexBytes" or "GUID"
    u,      \* the U64 receiver (*u)
    hb,     \* the HexBytes receiver (*u of HexBytes)
    g,      \* the GUID receiver (*o)
    op,     \* the method called last
    in,     \* its argument b ([]byte), <<>> for a Marshal call
    ret,    \* how it returned: "nil", "error" or "panic"
    out,    \* the bytes a Marshal call returned
    calls   \* the decoders the last call invoked, in order

vars == <<live, u, hb, g, op, in, ret, out, calls>>

----------------------------------------------------------------------------
(* Bytes *)

Min(a, b) == IF a < b THEN a ELSE b

SubSeqFrom(s, i) == SubSeq(s, i, Len(s))

HasPrefix(s, p) == Len(s) >= Len(p) /\ SubSeq(s, 1, Len(p)) = p

HasSuffix(s, p) == Len(s) >= Len(p) /\ SubSeq(s, Len(s) - Len(p) + 1, Len(s)) = p

IsDigit(c) == c >= 48 /\ c <= 57

IsHexDigit(c) == IsDigit(c) \/ (c >= 97 /\ c <= 102) \/ (c >= 65 /\ c <= 70)

\* fromHexChar of encoding/hex
HexVal(c) == IF IsDigit(c) THEN c - 48 ELSE IF c >= 97 THEN c - 87 ELSE c - 55

\* the table "0123456789abcdef" of encoding/hex
HexChar(n) == IF n < 10 THEN 48 + n ELSE 87 + n

IsSpace(c) == c \in {32, 9, 13, 10}

----------------------------------------------------------------------------
(* uint64 as four 16-bit limbs, least significant first *)

Limb == 65536

Zero64 == <<0, 0, 0, 0>>

MaxUint64 == <<65535, 65535, 65535, 65535>>

\* maxUint64/10 + 1 = 1844674407370955162 = 0x1999 9999 9999 999A
Cutoff10 == <<39322, 39321, 39321, 6553>>

Less64(a, b) ==
    \E i \in 1..4 : a[i] < b[i] /\ \A j \in (i + 1)..4 : a[j] = b[j]

\* n * 10 wrapped to 64 bits
Mul10(n) ==
    LET p1 == n[1] * 10
        p2 == n[2] * 10 + p1 \div Limb
        p3 == n[3] * 10 + p2 \div Limb
        p4 == n[4] * 10 + p3 \div Limb
    IN  <<p1 % Limb, p2 % Limb, p3 % Limb, p4 % Limb>>

\* n + d wrapped to 64 bits, d < 2^16
AddSmall(n, d) ==
    LET s1 == n[1] + d
        s2 == n[2] + s1 \div Limb
        s3 == n[3] + s2 \div Limb
        s4 == n[4] + s3 \div Limb
    IN  <<s1 % Limb, s2 % Limb, s3 % Limb, s4 % Limb>>

\* n / 10 and n % 10
Div10(n) ==
    LET r4 == n[4]
        r3 == (r4 % 10) * Limb + n[3]
        r2 == (r3 % 10) * Limb + n[2]
        r1 == (r2 % 10) * Limb + n[1]
    IN  [q |-> <<r1 \div 10, r2 \div 10, r3 \div 10, r4 \div 10>>, r |-> r1 % 10]

----------------------------------------------------------------------------
(* util.StrToUint64: strconv.ParseUint(s, 10, 64) *)

RECURSIVE ParseUintFrom(_, _, _)
ParseUintFrom(s, i, n) ==
    IF i > Len(s) THEN [err |-> "nil", v |-> n]
    ELSE IF ~IsDigit(s[i]) THEN [err |-> "syntax", v |-> Zero64]
    ELSE IF ~Less64(n, Cutoff10) THEN [err |-> "range", v |-> MaxUint64]
    ELSE LET m  == Mul10(n)
             n1 == AddSmall(m, s[i] - 48)
         IN  IF Less64(n1, m) THEN [err |-> "range", v |-> MaxUint64]
             ELSE ParseUintFrom(s, i + 1, n1)

StrToUint64(s) ==
    IF s = <<>> THEN [err |-> "syntax", v |-> Zero64]
    ELSE ParseUintFrom(s, 1, Zero64)

(* fmt.Sprintf("%d", v) *)

RECURSIVE FormatDigits(_)
FormatDigits(n) ==
    IF n = Zero64 THEN <<>>
    ELSE LET d == Div10(n) IN Append(FormatDigits(d.q), 48 + d.r)

FormatUint(n) == IF n = Zero64 THEN <<48>> ELSE FormatDigits(n)

----------------------------------------------------------------------------
(* encoding/json: the scanner that checks a document (checkValid) *)

\* the byte at i, or -1 past either end
At(b, i) == IF i >= 1 /\ i <= Len(b) THEN b[i] ELSE -1

RECURSIVE SkipWS(_, _)
SkipWS(b, i) == IF IsSpace(At(b, i)) THEN SkipWS(b, i + 1) ELSE i

RECURSIVE SkipDigits(_, _)
SkipDigits(b, i) == IF IsDigit(At(b, i)) THEN SkipDigits(b, i + 1) ELSE i

\* i is inside a string, after its opening quote; the index after the closing
\* quote, or 0 when the string is malformed
RECURSIVE ScanStr(_, _)
ScanStr(b, i) ==
    LET c == At(b, i)
        e == At(b, i + 1)
    IN  IF c = 34 THEN i + 1
        ELSE IF c = 92 THEN
            IF e \in {98, 102, 110, 114, 116, 92, 47, 34} THEN ScanStr(b, i + 2)
            ELSE IF e = 117 /\ \A k \in 2..5 : IsHexDigit(At(b, i + k))
                 THEN ScanStr(b, i + 6)
            ELSE 0
        ELSE IF c < 32 THEN 0
        ELSE ScanStr(b, i + 1)

\* the index after the number starting at i, or 0
ScanNumber(b, i) ==
    LET j1 == IF At(b, i) = 45 THEN i + 1 ELSE i
        j2 == IF At(b, j1) = 48 THEN j1 + 1
              ELSE IF IsDigit(At(b, j1)) THEN SkipDigits(b, j1)
              ELSE 0
        j3 == IF j2 # 0 /\ At(b, j2) = 46
              THEN (IF IsDigit(At(b, j2 + 1)) THEN SkipDigits(b, j2 + 1) ELSE 0)
              ELSE j2
        s  == IF At(b, j3 + 1) \in {43, 45} THEN j3 + 2 ELSE j3 + 1
        j4 == IF j3 # 0 /\ At(b, j3) \in {101, 69}
              THEN (IF IsDigit(At(b, s)) THEN SkipDigits(b, s) ELSE 0)
              ELSE j3
    IN  j4

ScanLiteral(b, i, word) ==
    IF SubSeq(b, i, Min(Len(b), i + Len(word) - 1)) = word THEN i + Len(word) ELSE 0

\* scanner.go: a value nested deeper than this is a syntax error
maxNestingDepth == 10000

RECURSIVE ScanValue(_, _, _)
RECURSIVE ScanMembers(_, _, _)
RECURSIVE ScanElements(_, _, _)

\* the index after the JSON value starting at i, or 0 when there is none; d is
\* the number of objects and arrays open around it (pushParseState fails when
\* one more would exceed maxNestingDepth)
ScanValue(b, i, d) ==
    LET c == At(b, i)
    IN  IF c = 34 THEN ScanStr(b, i + 1)
        ELSE IF c = 45 \/ IsDigit(c) THEN ScanNumber(b, i)
        ELSE IF c = 116 THEN ScanLiteral(b, i, <<116, 114, 117, 101>>)
        ELSE IF c = 102 THEN ScanLiteral(b, i, <<102, 97, 108, 115, 101>>)
        ELSE IF c = 110 THEN ScanLiteral(b, i, <<110, 117, 108, 108>>)
        ELSE IF c \in {123, 91} /\ d >= maxNestingDepth THEN 0
        ELSE IF c = 123 THEN
            (IF At(b, SkipWS(b, i + 1)) = 125 THEN SkipWS(b, i + 1) + 1
             ELSE ScanMembers(b, SkipWS(b, i + 1), d + 1))
        ELSE IF c = 91 THEN
            (IF At(b, SkipWS(b, i + 1)) = 93 THEN SkipWS(b, i + 1) + 1
             ELSE ScanElements(b, SkipWS(b, i + 1), d + 1))
        ELSE 0

\* i is where a member's key must start; the index after the object's '}', or 0
ScanMembers(b, i, d) ==
    LET k == IF At(b, i) = 34 THEN ScanStr(b, i + 1) ELSE 0
        c == SkipWS(b, k)
        v == IF k # 0 /\ At(b, c) = 58 THEN ScanValue(b, SkipWS(b, c + 1), d) ELSE 0
        n == SkipWS(b, v)
    IN  IF v = 0 THEN 0
        ELSE IF At(b, n) = 44 THEN ScanMembers(b, SkipWS(b, n + 1), d)
        ELSE IF At(b, n) = 125 THEN n + 1
        ELSE 0

\* i is where an element must start; the index after the array's ']', or 0
ScanElements(b, i, d) ==
    LET v == ScanValue(b, i, d)
        n == SkipWS(b, v)
    IN  IF v = 0 THEN 0
        ELSE IF At(b, n) = 44 THEN ScanElements(b, SkipWS(b, n + 1), d)
        ELSE IF At(b, n) = 93 THEN n + 1
        ELSE 0

\* checkValid: one value, white space around it allowed, nothing else
JsonValid(b) ==
    LET e == ScanValue(b, SkipWS(b, 1), 0)
    IN  e # 0 /\ SkipWS(b, e) = Len(b) + 1

----------------------------------------------------------------------------
(* encoding/json: string literals *)

\* getu4: the value of the four hex digits of a \uXXXX at i, or -1
GetU4(b, i) ==
    IF At(b, i) = 92 /\ At(b, i + 1) = 117 /\ \A k \in 2..5 : IsHexDigit(At(b, i + k))
    THEN HexVal(b[i + 2]) * 4096 + HexVal(b[i + 3]) * 256
         + HexVal(b[i + 4]) * 16 + HexVal(b[i + 5])
    ELSE -1

\* utf8.AppendRune
Utf8(r) ==
    IF r < 128 THEN <<r>>
    ELSE IF r < 2048 THEN <<192 + (r \div 64), 128 + (r % 64)>>
    ELSE IF r < 65536
         THEN <<224 + (r \div 4096), 128 + ((r \div 64) % 64), 128 + (r % 64)>>
    ELSE <<240 + (r \div 262144), 128 + ((r \div 4096) % 64),
           128 + ((r \div 64) % 64), 128 + (r % 64)>>

\* a continuation byte of UTF-8
IsCont(x) == x >= 128 /\ x <= 191

\* utf8.DecodeRune: the length of the well-formed encoding that starts at b[i],
\* or 0 when the bytes there are not one (RuneError of width 1)
Utf8Size(b, i) ==
    LET c  == At(b, i)
        c1 == At(b, i + 1)
        c2 == At(b, i + 2)
        c3 == At(b, i + 3)
    IN  IF c >= 194 /\ c <= 223 THEN (IF IsCont(c1) THEN 2 ELSE 0)
        ELSE IF c = 224 THEN (IF c1 >= 160 /\ c1 <= 191 /\ IsCont(c2) THEN 3 ELSE 0)
        ELSE IF c = 237 THEN (IF c1 >= 128 /\ c1 <= 159 /\ IsCont(c2) THEN 3 ELSE 0)
        ELSE IF c >= 225 /\ c <= 239 THEN (IF IsCont(c1) /\ IsCont(c2) THEN 3 ELSE 0)
        ELSE IF c = 240
             THEN (IF c1 >= 144 /\ c1 <= 191 /\ IsCont(c2) /\ IsCont(c3) THEN 4 ELSE 0)
        ELSE IF c >= 241 /\ c <= 243
             THEN (IF IsCont(c1) /\ IsCont(c2) /\ IsCont(c3) THEN 4 ELSE 0)
        ELSE IF c = 244
             THEN (IF c1 >= 128 /\ c1 <= 143 /\ IsCont(c2) /\ IsCont(c3) THEN 4 ELSE 0)
        ELSE 0

\* the bytes unquote writes for the non-ASCII character at b[i], n its
\* Utf8Size: a well-formed encoding is copied, anything else becomes U+FFFD
Utf8Copy(b, i, n) == IF n = 0 THEN Utf8(65533) ELSE SubSeq(b, i, i + n - 1)

\* how far unquote advances over it
Utf8Step(n) == IF n = 0 THEN 1 ELSE n

\* the character a one-letter escape stands for
Unescape(e) ==
    CASE e = 98 -> 8 [] e = 102 -> 12 [] e = 110 -> 10 [] e = 114 -> 13
      [] e = 116 -> 9 [] OTHER -> e

RECURSIVE UnquoteFrom(_, _)

\* unquote at a byte of 0x80 and above, n the Utf8Size there
UnquoteRune(b, i, n) == Utf8Copy(b, i, n) \o UnquoteFrom(b, i + Utf8Step(n))

\* unquote: the text of a valid string literal, i after its opening quote
UnquoteFrom(b, i) ==
    LET c  == b[i]
        rr == GetU4(b, i)
        r2 == GetU4(b, i + 6)
    IN  IF c = 34 THEN <<>>
        ELSE IF c >= 128 THEN UnquoteRune(b, i, Utf8Size(b, i))
        ELSE IF c # 92 THEN <<c>> \o UnquoteFrom(b, i + 1)
        ELSE IF b[i + 1] # 117 THEN <<Unescape(b[i + 1])>> \o UnquoteFrom(b, i + 2)
        ELSE IF rr < 55296 \/ rr > 57343 THEN Utf8(rr) \o UnquoteFrom(b, i + 6)
        ELSE IF rr < 56320 /\ r2 >= 56320 /\ r2 <= 57343
             THEN Utf8(65536 + (rr - 55296) * 1024 + (r2 - 56320))
                  \o UnquoteFrom(b, i + 12)
        ELSE Utf8(65533) \o UnquoteFrom(b, i + 6)

\* json.Unmarshal(b, &str) with str == "": a string literal is unquoted, null
\* leaves str alone, any other value is a type error; i is where the value starts
JsonUnmarshalStringAt(b, i) ==
    IF b[i] = 34 THEN [err |-> "nil", str |-> UnquoteFrom(b, i + 1)]
    ELSE IF b[i] = 110 THEN [err |-> "nil", str |-> <<>>]
    ELSE [err |-> "type", str |-> <<>>]

JsonUnmarshalString(b) ==
    IF ~JsonValid(b) THEN [err |-> "syntax", str |-> <<>>]
    ELSE JsonUnmarshalStringAt(b, SkipWS(b, 1))

RECURSIVE JsonEscape(_)

\* the encoder at a byte of 0x80 and above, n the Utf8Size there: bytes that are
\* not UTF-8 are written as \ufffd, U+2028 and U+2029 as \u2028 and \u2029
JsonEscapeRune(s, n) ==
    LET e == IF n = 0 THEN <<92, 117, 102, 102, 102, 100>>
             ELSE IF n = 3 /\ s[1] = 226 /\ s[2] = 128 /\ s[3] \in {168, 169}
                  THEN <<92, 117, 50, 48, 50, HexChar(s[3] % 16)>>
             ELSE SubSeq(s, 1, n)
    IN  e \o JsonEscape(SubSeqFrom(s, Utf8Step(n) + 1))

\* json.Marshal of a string: quoted, with the escapes of the encoder
JsonEscape(s) ==
    IF s = <<>> THEN <<>>
    ELSE IF Head(s) >= 128 THEN JsonEscapeRune(s, Utf8Size(s, 1))
    ELSE LET c == Head(s)
             e == CASE c \in {34, 92} -> <<92, c>>
                    [] c = 8  -> <<92, 98>>
                    [] c = 12 -> <<92, 102>>
                    [] c = 10 -> <<92, 110>>
                    [] c = 13 -> <<92, 114>>
                    [] c = 9  -> <<92, 116>>
                    [] c < 32 \/ c \in {60, 62, 38} ->
                           <<92, 117, 48, 48, HexChar(c \div 16), HexChar(c % 16)>>
                    [] OTHER -> <<c>>
         IN  e \o JsonEscape(Tail(s))

JsonMarshalString(s) == <<34>> \o JsonEscape(s) \o <<34>>

----------------------------------------------------------------------------
(* U64 *)

\* lines 63-68: the literal is parsed and, when it parses, stored in *u
U64Store(old, r, called) ==
    IF r.err # "nil" THEN [ret |-> "error", u |-> old, calls |-> called]
    ELSE [ret |-> "nil", u |-> r.v, calls |-> called]

\* lines 55-58: the literal of a quoted token is the string json.Unmarshal finds
U64FromQuoted(old, js) ==
    IF js.err # "nil" THEN [ret |-> "error", u |-> old, calls |-> <<"json">>]
    ELSE U64Store(old, StrToUint64(js.str), <<"json", "StrToUint64">>)

\* a U64.UnmarshalJSON that takes every token for a bare number
U64_UnmarshalJSON_Bare(old, b) ==
    IF Len(b) = 0 THEN [ret |-> "panic", u |-> old, calls |-> <<>>]
    ELSE U64Store(old, StrToUint64(b), <<"StrToUint64">>)

\* func (u *U64) UnmarshalJSON(b []byte) error, as the value it leaves in *u
\* and how it returns; old is *u before the call.  b[0] of an empty b panics.
U64_UnmarshalJSON(old, b) ==
    IF Len(b) = 0 THEN [ret |-> "panic", u |-> old, calls |-> <<>>]
    ELSE IF b[1] = 34 /\ b[Len(b)] = 34 THEN U64FromQuoted(old, JsonUnmarshalString(b))
    ELSE U64Store(old, StrToUint64(b), <<"StrToUint64">>)

\* a U64.MarshalJSON that writes a JSON number
U64_MarshalJSON_Number(v) == FormatUint(v)

\* func (u U64) MarshalJSON() ([]byte, error)
U64_MarshalJSON(v) == JsonMarshalString(FormatUint(v))

----------------------------------------------------------------------------
(* util.ParseHex, util.BytesToHex (encoding/hex) and base64.StdEncoding *)

RECURSIVE HexDecodePairs(_)
HexDecodePairs(s) ==
    IF s = <<>> THEN <<>>
    ELSE <<HexVal(s[1]) * 16 + HexVal(s[2])>> \o HexDecodePairs(SubSeqFrom(s, 3))

\* hex.DecodeString
HexDecodeString(s) ==
    IF \E i \in 1..Len(s) : ~IsHexDigit(s[i]) THEN [err |-> "invalid byte", bytes |-> <<>>]
    ELSE IF Len(s) % 2 = 1 THEN [err |-> "odd length", bytes |-> <<>>]
    ELSE [err |-> "nil", bytes |-> HexDecodePairs(s)]

\* strings.TrimPrefix(s, "0x")
TrimPrefix0x(s) == IF HasPrefix(s, <<48, 120>>) THEN SubSeqFrom(s, 3) ELSE s

ParseHex(s) == HexDecodeString(TrimPrefix0x(s))

RECURSIVE HexEncodeToString(_)
HexEncodeToString(bs) ==
    IF bs = <<>> THEN <<>>
    ELSE <<HexChar(Head(bs) \div 16), HexChar(Head(bs) % 16)>>
         \o HexEncodeToString(Tail(bs))

BytesToHex(bs) == <<48, 120>> \o HexEncodeToString(bs)

\* the value of a character of the standard base64 alphabet, or -1
B64Val(c) ==
    IF c >= 65 /\ c <= 90 THEN c - 65
    ELSE IF c >= 97 /\ c <= 122 THEN c - 71
    ELSE IF IsDigit(c) THEN c + 4
    ELSE IF c = 43 THEN 62
    ELSE IF c = 47 THEN 63
    ELSE -1

\* the decoder skips '\r' and '\n' wherever they stand
RECURSIVE StripNewlines(_)
StripNewlines(s) ==
    IF s = <<>> THEN <<>>
    ELSE IF Head(s) \in {10, 13} THEN StripNewlines(Tail(s))
    ELSE <<Head(s)>> \o StripNewlines(Tail(s))

\* s is a whole number of quanta; only the last one may be padded
RECURSIVE B64Quanta(_)
B64Quanta(s) ==
    IF s = <<>> THEN [err |-> "nil", bytes |-> <<>>]
    ELSE
    LET v1   == B64Val(s[1])
        v2   == B64Val(s[2])
        v3   == B64Val(s[3])
        v4   == B64Val(s[4])
        last == Len(s) = 4
        rest == B64Quanta(SubSeqFrom(s, 5))
        b1   == v1 * 4 + (v2 \div 16)
        b2   == (v2 % 16) * 16 + (v3 \div 4)
        b3   == (v3 % 4) * 64 + v4
        bad  == [err |-> "corrupt input", bytes |-> <<>>]
    IN  IF v1 < 0 \/ v2 < 0 THEN bad
        ELSE IF v3 >= 0 /\ v4 >= 0
             THEN (IF rest.err # "nil" THEN bad
                   ELSE [err |-> "nil", bytes |-> <<b1, b2, b3>> \o rest.bytes])
        ELSE IF last /\ v3 >= 0 /\ s[4] = 61 THEN [err |-> "nil", bytes |-> <<b1, b2>>]
        ELSE IF last /\ s[3] = 61 /\ s[4] = 61 THEN [err |-> "nil", bytes |-> <<b1>>]
        ELSE bad

\* base64.StdEncoding.DecodeString
Base64DecodeString(s) ==
    LET t == StripNewlines(s)
    IN  IF Len(t) % 4 # 0 THEN [err |-> "corrupt input", bytes |-> <<>>]
        ELSE B64Quanta(t)

----------------------------------------------------------------------------
(* HexBytes *)

\* a decoder choice that tries base64 before hex when neither mark is there
HexBytesFromString_Base64First(old, str, hx, b64) ==
    IF HasPrefix(str, <<48, 120>>) THEN
        IF hx.err # "nil"
        THEN [ret |-> "error", hb |-> old, calls |-> <<"json", "ParseHex">>]
        ELSE [ret |-> "nil", hb |-> hx.bytes, calls |-> <<"json", "ParseHex">>]
    ELSE IF HasSuffix(str, <<61>>) THEN
        IF b64.err # "nil"
        THEN [ret |-> "error", hb |-> old, calls |-> <<"json", "base64">>]
        ELSE [ret |-> "nil", hb |-> b64.bytes, calls |-> <<"json", "base64">>]
    ELSE IF b64.err = "nil"
        THEN [ret |-> "nil", hb |-> b64.bytes, calls |-> <<"json", "base64">>]
    ELSE IF hx.err # "nil"
        THEN [ret |-> "error", hb |-> old, calls |-> <<"json", "base64", "ParseHex">>]
    ELSE [ret |-> "nil", hb |-> hx.bytes, calls |-> <<"json", "base64", "ParseHex">>]

\* a decoder choice that looks at the suffix only
HexBytesFromString_NoPrefixTest(old, str, hx, b64) ==
    IF HasSuffix(str, <<61>>) THEN
        IF b64.err # "nil"
        THEN [ret |-> "error", hb |-> old, calls |-> <<"json", "base64">>]
        ELSE [ret |-> "nil", hb |-> b64.bytes, calls |-> <<"json", "base64">>]
    ELSE IF hx.err = "nil"
        THEN [ret |-> "nil", hb |-> hx.bytes, calls |-> <<"json", "ParseHex">>]
    ELSE IF b64.err # "nil"
        THEN [ret |-> "error", hb |-> old, calls |-> <<"json", "ParseHex", "base64">>]
    ELSE [ret |-> "nil", hb |-> b64.bytes, calls |-> <<"json", "ParseHex", "base64">>]

\* lines 97-121: the decoder is chosen by the prefix and the suffix of str; hx
\* and b64 are what util.ParseHex and base64 make of str
HexBytesFromString(old, str, hx, b64) ==
    IF HasPrefix(str, <<48, 120>>) THEN
        IF hx.err # "nil"
        THEN [ret |-> "error", hb |-> old, calls |-> <<"json", "ParseHex">>]
        ELSE [ret |-> "nil", hb |-> hx.bytes, calls |-> <<"json", "ParseHex">>]
    ELSE IF HasSuffix(str, <<61>>) THEN
        IF b64.err # "nil"
        THEN [ret |-> "error", hb |-> old, calls |-> <<"json", "base64">>]
        ELSE [ret |-> "nil", hb |-> b64.bytes, calls |-> <<"json", "base64">>]
    ELSE IF hx.err = "nil"
        THEN [ret |-> "nil", hb |-> hx.bytes, calls |-> <<"json", "ParseHex">>]
    ELSE IF b64.err # "nil"
        THEN [ret |-> "error", hb |-> old, calls |-> <<"json", "ParseHex", "base64">>]
    ELSE [ret |-> "nil", hb |-> b64.bytes, calls |-> <<"json", "ParseHex", "base64">>]

\* a HexBytes.UnmarshalJSON that refuses a string without content
HexBytesFromJSON_NoEmpty(old, js) ==
    IF js.err # "nil" \/ js.str = <<>>
    THEN [ret |-> "error", hb |-> old, calls |-> <<"json">>]
    ELSE HexBytesFromString(old, js.str, ParseHex(js.str), Base64DecodeString(js.str))

\* lines 92-96: b must hold a JSON string
HexBytesFromJSON(old, js) ==
    IF js.err # "nil" THEN [ret |-> "error", hb |-> old, calls |-> <<"json">>]
    ELSE HexBytesFromString(old, js.str, ParseHex(js.str), Base64DecodeString(js.str))

\* func (u *HexBytes) UnmarshalJSON(b []byte) error
HexBytes_UnmarshalJSON(old, b) == HexBytesFromJSON(old, JsonUnmarshalString(b))

\* a HexBytes.MarshalJSON that writes the digits in upper case
HexBytes_MarshalJSON_Upper(bs) ==
    JsonMarshalString([i \in 1..(2 * Len(bs) + 2) |->
        IF BytesToHex(bs)[i] >= 97 /\ BytesToHex(bs)[i] <= 102
        THEN BytesToHex(bs)[i] - 32 ELSE BytesToHex(bs)[i]])

\* func (u HexBytes) MarshalJSON() ([]byte, error)
HexBytes_MarshalJSON(bs) == JsonMarshalString(BytesToHex(bs))

----------------------------------------------------------------------------
(* types.AccountAddress: a hex string of 1 to 64 digits with an optional 0x, *)
(* kept as its lower-case digits without leading zeros; a nil pointer to one *)
(* is the empty sequence                                                     *)

NilAddress == <<>>

ToLower(c) == IF c >= 65 /\ c <= 90 THEN c + 32 ELSE c

RECURSIVE TrimZeros(_)
TrimZeros(s) == IF Len(s) > 1 /\ Head(s) = 48 THEN TrimZeros(Tail(s)) ELSE s

\* ParseStringRelaxed, x without its 0x
AddressFromHex(x) ==
    IF Len(x) < 1 \/ Len(x) > 64 \/ \E i \in 1..Len(x) : ~IsHexDigit(x[i])
    THEN [err |-> "error", aa |-> NilAddress]
    ELSE [err |-> "nil", aa |-> TrimZeros([i \in 1..Len(x) |-> ToLower(x[i])])]

AddressFromJSON(js) ==
    IF js.err # "nil" THEN [err |-> "error", aa |-> NilAddress]
    ELSE AddressFromHex(TrimPrefix0x(js.str))

AccountAddress_UnmarshalJSON(b) == AddressFromJSON(JsonUnmarshalString(b))

AccountAddress_MarshalJSON(aa) == JsonMarshalString(<<48, 120>> \o aa)

----------------------------------------------------------------------------
(* GUID *)

creation_number == <<99, 114, 101, 97, 116, 105, 111, 110, 95, 110, 117, 109, 98, 101, 114>>

account_address == <<97, 99, 99, 111, 117, 110, 116, 95, 97, 100, 100, 114, 101, 115, 115>>

\* foldName of encoding/json: keys match field names under simple case folding,
\* and U+017F and U+212A fold to S and K
RECURSIVE FoldName(_)
FoldName(s) ==
    IF s = <<>> THEN <<>>
    ELSE IF HasPrefix(s, <<197, 191>>) THEN <<115>> \o FoldName(SubSeqFrom(s, 3))
    ELSE IF HasPrefix(s, <<226, 132, 170>>) THEN <<107>> \o FoldName(SubSeqFrom(s, 4))
    ELSE <<ToLower(Head(s))>> \o FoldName(Tail(s))

\* the struct inner as json.Unmarshal finds it: data := &inner{}
ZeroInner == [err |-> "nil", CreationNumber |-> Zero64, AccountAddress |-> NilAddress]

RECURSIVE DecodeMembers(_, _, _)

\* a member's value is stored by the UnmarshalJSON of the field its key names;
\* an error of that method ends the decoding.  A null for the pointer field
\* AccountAddress sets it to nil, and a key that names no field is skipped.
StoreCreationNumber(b, acc, r, next) ==
    IF r.ret # "nil" THEN [acc EXCEPT !.err = "error"]
    ELSE DecodeMembers(b, next, [acc EXCEPT !.CreationNumber = r.u])

StoreAccountAddress(b, acc, r, next) ==
    IF r.err # "nil" THEN [acc EXCEPT !.err = "error"]
    ELSE DecodeMembers(b, next, [acc EXCEPT !.AccountAddress = r.aa])

StoreField(b, acc, key, raw, next) ==
    IF key = creation_number
    THEN StoreCreationNumber(b, acc, U64_UnmarshalJSON(acc.CreationNumber, raw), next)
    ELSE IF key = account_address THEN
        IF raw[1] = 110
        THEN DecodeMembers(b, next, [acc EXCEPT !.AccountAddress = NilAddress])
        ELSE StoreAccountAddress(b, acc, AccountAddress_UnmarshalJSON(raw), next)
    ELSE DecodeMembers(b, next, acc)

\* n is where the ',' or the '}' after a member stands: where the next key starts
NextMember(b, n) == IF b[n] = 44 THEN SkipWS(b, n + 1) ELSE n

\* the member whose key starts at i and whose value is b[v .. e-1]: the value is
\* handed to its field as the bytes it is written with
DecodeMember(b, i, acc, v, e) ==
    StoreField(b, acc, FoldName(UnquoteFrom(b, i + 1)), SubSeq(b, v, e - 1),
               NextMember(b, SkipWS(b, e)))

\* the member whose key starts at i and whose value starts at v
DecodeValueAt(b, i, acc, v) == DecodeMember(b, i, acc, v, ScanValue(b, v, 1))

\* the members of a valid object from the key at i on, stored into acc in order
DecodeMembers(b, i, acc) ==
    IF b[i] = 125 THEN acc
    ELSE DecodeValueAt(b, i, acc, SkipWS(b, SkipWS(b, ScanStr(b, i + 1)) + 1))

InnerResult(d) == [err |-> d.err, isNil |-> FALSE, data |-> d]

\* json.Unmarshal(b, &data) with data == &inner{}: null sets data to nil, an
\* object fills *data, any other value is a type error; i is where the value starts
JsonUnmarshalInnerAt(b, i) ==
    IF b[i] = 110 THEN [err |-> "nil", isNil |-> TRUE, data |-> ZeroInner]
    ELSE IF b[i] # 123 THEN [err |-> "type", isNil |-> FALSE, data |-> ZeroInner]
    ELSE InnerResult(DecodeMembers(b, SkipWS(b, i + 1), ZeroInner))

JsonUnmarshalInner(b) ==
    IF ~JsonValid(b) THEN [err |-> "syntax", isNil |-> FALSE, data |-> ZeroInner]
    ELSE JsonUnmarshalInnerAt(b, SkipWS(b, 1))

ZeroGUID == [CreationNumber |-> Zero64, AccountAddress |-> NilAddress]

\* a GUID.UnmarshalJSON that decodes straight into the fields of *o
GUIDFromInner_InPlace(old, r) ==
    IF r.err \in {"syntax", "type"} THEN [ret |-> "error", g |-> old, calls |-> <<"json">>]
    ELSE IF r.isNil THEN [ret |-> "panic", g |-> old, calls |-> <<"json">>]
    ELSE [ret |-> (IF r.err # "nil" THEN "error" ELSE "nil"),
          g |-> [CreationNumber |-> r.data.CreationNumber,
                 AccountAddress |-> r.data.AccountAddress],
          calls |-> <<"json">>]

\* lines 29-34: an error is returned as it is; the fields of *data are copied
\* into *o, and data == nil makes data.AccountAddress panic
GUIDFromInner(old, r) ==
    IF r.err # "nil" THEN [ret |-> "error", g |-> old, calls |-> <<"json">>]
    ELSE IF r.isNil THEN [ret |-> "panic", g |-> old, calls |-> <<"json">>]
    ELSE [ret |-> "nil",
          g |-> [CreationNumber |-> r.data.CreationNumber,
                 AccountAddress |-> r.data.AccountAddress],
          calls |-> <<"json">>]

\* func (o *GUID) UnmarshalJSON(b []byte) error
GUID_UnmarshalJSON(old, b) == GUIDFromInner(old, JsonUnmarshalInner(b))

\* func (o *GUID) MarshalJSON() ([]byte, error)
GUID_MarshalJSON(o) ==
    <<123>> \o JsonMarshalString(creation_number) \o <<58>>
    \o U64_MarshalJSON(o.CreationNumber)
    \o <<44>> \o JsonMarshalString(account_address) \o <<58>>
    \o (IF o.AccountAddress = NilAddress THEN <<110, 117, 108, 108>>
        ELSE AccountAddress_MarshalJSON(o.AccountAddress))
    \o <<125>>

----------------------------------------------------------------------------
(* The inputs of the calls *)

\* the sequences over A of length at most n
StringsUpTo(A, n) == UNION {{<<>> \o s : s \in [1..k -> A]} : k \in 0..n}

\* the text of a sequence of decimal digits
D(ds) == [i \in 1..Len(ds) |-> 48 + ds[i]]

\* s between double quotes, as it stands
Quote(s) == <<34>> \o s \o <<34>>

null == <<110, 117, 108, 108>>

MaxLitLen == 2

\* '0' '5' '6' ' ' 'a' '"'
LitChars == {48, 53, 54, 32, 97, 34}

\* 1844674407370955161: one more digit decides whether the number fits
Big19 == D(<<1, 8, 4, 4, 6, 7, 4, 4, 0, 7, 3, 7, 0, 9, 5, 5, 1, 6, 1>>)

U64Lits == {p \o t : p \in {<<>>, Big19}, t \in StringsUpTo(LitChars, MaxLitLen)}

U64Extra ==
    { null, D(<<7>>), D(<<4, 2>>), D(<<0, 0, 7>>),
      <<55, 46, 48>>,                              \* 7.0
      <<49, 101, 51>>,                             \* 1e3
      <<45, 49>>,                                  \* -1
      <<43, 55>>,                                  \* +7
      <<32, 34, 55, 34>>,                          \* ' "7"'
      <<34, 92, 117, 48, 48, 51, 55, 34>>,         \* "7"
      <<34, 55, 92, 110, 34>>,                     \* "7\n"
      <<34, 55, 10, 34>>,                          \* a raw line feed inside
      <<34, 255, 34>>,                             \* a byte that is not UTF-8
      <<34, 55, 195, 169, 34>>,                    \* "7" and U+00E9
      Quote(D(<<7>>)), Quote(D(<<4, 2>>)),
      Quote(D(<<1, 2, 3, 4, 5, 6, 7, 8, 9, 0, 1, 2, 3, 4, 5>>)),
      D(<<3, 6, 8, 9, 3, 4, 8, 8, 1, 4, 7, 4, 1, 9, 1, 0, 3, 2, 3, 2>>) }  \* 2^65

U64Tokens == U64Lits \cup {Quote(l) : l \in U64Lits} \cup U64Extra

\* 0, 7, 2^32, 123456789012345, 2^53 + 1, 2^64 - 1
U64Inits ==
    { Zero64, <<7, 0, 0, 0>>, <<0, 0, 1, 0>>, <<57209, 34317, 28744, 0>>,
      <<1, 0, 0, 32>>, MaxUint64 }

MaxBytes == 3

\* 0x00, 0x12, 0xd3
ByteVals == {0, 18, 211}

ByteSeqs == StringsUpTo(ByteVals, MaxBytes)

\* the alphabet of base64.StdEncoding
B64Char(v) ==
    IF v < 26 THEN 65 + v
    ELSE IF v < 52 THEN 71 + v
    ELSE IF v < 62 THEN v - 4
    ELSE IF v = 62 THEN 43 ELSE 47

\* base64.StdEncoding.EncodeToString
RECURSIVE Base64EncodeToString(_)
Base64EncodeToString(bs) ==
    IF bs = <<>> THEN <<>>
    ELSE IF Len(bs) = 1 THEN
        <<B64Char(bs[1] \div 4), B64Char((bs[1] % 4) * 16), 61, 61>>
    ELSE IF Len(bs) = 2 THEN
        <<B64Char(bs[1] \div 4), B64Char((bs[1] % 4) * 16 + (bs[2] \div 16)),
          B64Char((bs[2] % 16) * 4), 61>>
    ELSE <<B64Char(bs[1] \div 4), B64Char((bs[1] % 4) * 16 + (bs[2] \div 16)),
           B64Char((bs[2] % 16) * 4 + (bs[3] \div 64)), B64Char(bs[3] % 64)>>
         \o Base64EncodeToString(SubSeqFrom(bs, 4))

MaxTextLen == 3

\* '0' 'x' '=' 'g'
TextChars == {48, 120, 61, 103}

HexExtra ==
    { null, <<>>, D(<<7>>), <<34>>, <<34, 48, 120, 49, 50>>,
      <<32, 34, 48, 120, 49, 50, 34, 10>>,                  \* ' "0x12"' and a line feed
      <<34, 48, 120, 49, 50, 51, 52, 53, 54, 34>>,          \* "0x123456"
      <<34, 48, 120, 65, 98, 34>>,                          \* "0xAb"
      <<34, 48, 88, 49, 50, 34>>,                           \* "0X12"
      <<34, 69, 106, 82, 87, 34>>,                          \* "EjRW"
      <<34, 69, 103, 61, 61, 92, 110, 34>>,                 \* "Eg==\n"
      <<34, 69, 103, 92, 110, 61, 61, 34>>,                 \* "Eg\n=="
      <<34, 92, 117, 48, 48, 51, 48, 120, 49, 50, 34>>,     \* "0x12"
      <<34, 69, 103, 34>>,                                  \* "Eg"
      <<34, 43, 47, 43, 47, 34>>,                           \* "+/+/"
      <<34, 48, 48, 48, 48, 34>>,                           \* "0000"
      <<34, 255, 34>>,                                      \* a byte that is not UTF-8
      <<34, 226, 130, 34>>,                                 \* a cut-off encoding
      <<34, 48, 120, 103, 48, 34>>,                         \* "0xg0"
      <<34, 103, 103, 103, 103, 34>>,                       \* "gggg"
      <<34, 103, 48, 61, 61, 34>> }                         \* "g0=="

HexTokens ==
    {Quote(t) : t \in StringsUpTo(TextChars, MaxTextLen)}
    \cup {Quote(BytesToHex(bs)) : bs \in ByteSeqs}
    \cup {Quote(Base64EncodeToString(bs)) : bs \in ByteSeqs}
    \cup HexExtra

MaxMembers == 2

max_u64 == D(<<1, 8, 4, 4, 6, 7, 4, 4, 0, 7, 3, 7, 0, 9, 5, 5, 1, 6, 1, 5>>)

CNTokens ==
    { Quote(D(<<3>>)), D(<<7>>), Quote(max_u64), Quote(Big19 \o D(<<6>>)), null,
      Quote(<<>>), <<91, 49, 93>> }

\* "0x1", "0xA", "0x0a", null, "zz", 5
AATokens ==
    { Quote(<<48, 120, 49>>), Quote(<<48, 120, 65>>), Quote(<<48, 120, 48, 97>>), null,
      Quote(<<122, 122>>), D(<<5>>) }

\* a member is a key and the text of its value
GUIDMembers ==
    {<<creation_number, t>> : t \in CNTokens}
    \cup {<<account_address, t>> : t \in AATokens}
    \cup { <<[creation_number EXCEPT ![1] = 67], D(<<7>>)>>,              \* Creation_number
           <<<<111>>, <<123, 34, 107, 34, 58, 91, 93, 125>>>> }          \* "o": {"k":[]}

RECURSIVE RenderMembers(_)
RenderMembers(ms) ==
    IF ms = <<>> THEN <<>>
    ELSE Quote(ms[1][1]) \o <<58>> \o ms[1][2]
         \o (IF Len(ms) > 1 THEN <<44>> ELSE <<>>) \o RenderMembers(Tail(ms))

RenderObject(ms) == <<123>> \o RenderMembers(ms) \o <<125>>

GUIDExtra ==
    { null, <<>>, <<91, 93>>, D(<<7>>), <<123>>, <<32, 123, 32, 125, 10>>,
      <<123, 34, 255, 34, 58, 91, 91, 93, 93, 125>>,        \* {"\xff":[[]]}
      <<32, 110, 117, 108, 108>>,
      <<123>> \o Quote(creation_number) \o <<32, 58, 32, 34, 51, 34, 32, 44, 32>>
          \o Quote(account_address) \o <<58, 32, 34, 48, 120, 49, 34, 32, 125>> }

GUIDTokens ==
    {RenderObject(ms) : ms \in StringsUpTo(GUIDMembers, MaxMembers)} \cup GUIDExtra

GUIDInits ==
    {ZeroGUID, [CreationNumber |-> <<5, 0, 0, 0>>, AccountAddress |-> <<98>>]}

----------------------------------------------------------------------------
(* The caller: one receiver, one call at a time *)

Idle ==
    /\ op' = "idle"
    /\ in' = <<>>
    /\ ret' = "nil"
    /\ out' = <<>>
    /\ calls' = <<>>

Init ==
    /\ live \in {"U64", "HexBytes", "GUID"}
    /\ u \in (IF live = "U64" THEN U64Inits ELSE {Zero64})
    /\ hb \in (IF live = "HexBytes" THEN ByteSeqs ELSE {<<>>})
    /\ g \in (IF live = "GUID" THEN GUIDInits ELSE {ZeroGUID})
    /\ op = "idle"
    /\ in = <<>>
    /\ ret = "nil"
    /\ out = <<>>
    /\ calls = <<>>

\* the arguments a call of an UnmarshalJSON is made with: any of tokens, or the
\* bytes the receiver's MarshalJSON just returned
Args(tokens, marshal) ==
    IF op = "idle" THEN tokens ELSE IF op = marshal THEN {out} ELSE {}

U64Unmarshal ==
    /\ live = "U64"
    /\ \E b \in Args(U64Tokens, "U64.MarshalJSON") :
         LET r == U64_UnmarshalJSON(u, b)
         IN  /\ u' = r.u
             /\ ret' = r.ret
             /\ calls' = r.calls
             /\ in' = b
    /\ op' = "U64.UnmarshalJSON"
    /\ UNCHANGED <<live, hb, g, out>>

U64Marshal ==
    /\ live = "U64"
    /\ op = "idle"
    /\ out' = U64_MarshalJSON(u)
    /\ op' = "U64.MarshalJSON"
    /\ ret' = "nil"
    /\ UNCHANGED <<live, u, hb, g, in, calls>>

HexBytesUnmarshal ==
    /\ live = "HexBytes"
    /\ \E b \in Args(HexTokens, "HexBytes.MarshalJSON") :
         LET r == HexBytes_UnmarshalJSON(hb, b)
         IN  /\ hb' = r.hb
             /\ ret' = r.ret
             /\ calls' = r.calls
             /\ in' = b
    /\ op' = "HexBytes.UnmarshalJSON"
    /\ UNCHANGED <<live, u, g, out>>

HexBytesMarshal ==
    /\ live = "HexBytes"
    /\ op = "idle"
    /\ out' = HexBytes_MarshalJSON(hb)
    /\ op' = "HexBytes.MarshalJSON"
    /\ ret' = "nil"
    /\ UNCHANGED <<live, u, hb, g, in, calls>>

GUIDUnmarshal ==
    /\ live = "GUID"
    /\ \E b \in Args(GUIDTokens, "GUID.MarshalJSON") :
         LET r == GUID_UnmarshalJSON(g, b)
         IN  /\ g' = r.g
             /\ ret' = r.ret
             /\ calls' = r.calls
             /\ in' = b
    /\ op' = "GUID.UnmarshalJSON"
    /\ UNCHANGED <<live, u, hb, out>>

GUIDMarshal ==
    /\ live = "GUID"
    /\ op = "idle"
    /\ out' = GUID_MarshalJSON(g)
    /\ op' = "GUID.MarshalJSON"
    /\ ret' = "nil"
    /\ UNCHANGED <<live, u, hb, g, in, calls>>

\* the caller takes what the call returned; a panic ends the program
Return ==
    /\ op # "idle"
    /\ ret # "panic"
    /\ Idle
    /\ UNCHANGED <<live, u, hb, g>>

Next ==
    \/ U64Unmarshal
    \/ U64Marshal
    \/ HexBytesUnmarshal
    \/ HexBytesMarshal
    \/ GUIDUnmarshal
    \/ GUIDMarshal
    \/ Return

Spec == Init /\ [][Next]_vars

----------------------------------------------------------------------------
(* What the claims speak of *)

\* s is a decimal numeral without sign or space
AllDigits(s) == s # <<>> /\ \A i \in 1..Len(s) : IsDigit(s[i])

\* s <= t for numerals of the same length
NumeralLeq(s, t) ==
    s = t \/ \E i \in 1..Len(s) : s[i] < t[i] /\ \A j \in 1..(i - 1) : s[j] = t[j]

\* s is a base-10 integer of at most 2^64 - 1
ValidU64Literal(s) ==
    /\ AllDigits(s)
    /\ \/ Len(TrimZeros(s)) < Len(max_u64)
       \/ Len(TrimZeros(s)) = Len(max_u64) /\ NumeralLeq(TrimZeros(s), max_u64)

\* the token is the decimal numeral of v between double quotes
IsQuotedDecimal(t, v) ==
    /\ Len(t) >= 3
    /\ t[1] = 34
    /\ t[Len(t)] = 34
    /\ AllDigits(SubSeq(t, 2, Len(t) - 1))
    /\ TrimZeros(SubSeq(t, 2, Len(t) - 1)) = SubSeq(t, 2, Len(t) - 1)
    /\ StrToUint64(SubSeq(t, 2, Len(t) - 1)) = [err |-> "nil", v |-> v]

\* the value of a lower-case hex digit, or -1
LowerHexVal(c) == IF IsDigit(c) THEN c - 48 ELSE IF c >= 97 /\ c <= 102 THEN c - 87 ELSE -1

\* the token is "0x and the lower-case hex digits of bs" between double quotes
IsQuoted0xHex(t, bs) ==
    /\ Len(t) = 2 * Len(bs) + 4
    /\ t[1] = 34 /\ t[2] = 48 /\ t[3] = 120 /\ t[Len(t)] = 34
    /\ \A i \in 1..Len(bs) :
         /\ LowerHexVal(t[2 + 2 * i]) >= 0
         /\ LowerHexVal(t[3 + 2 * i]) >= 0
         /\ LowerHexVal(t[2 + 2 * i]) * 16 + LowerHexVal(t[3 + 2 * i]) = bs[i]

\* the JSON string of the hex text and of the base64 text of each byte sequence
HexTextOf == [bs \in ByteSeqs |-> Quote(BytesToHex(bs))]

Base64TextOf == [bs \in ByteSeqs |-> Quote(Base64EncodeToString(bs))]

\* the decoder reads the text t as hex: it starts with 0x, or it is hex digits
ReadAsHex(t) ==
    \/ HasPrefix(t, <<48, 120>>)
    \/ t # <<>> /\ \A i \in 1..Len(t) : IsHexDigit(t[i])

\* the keys of the members of a valid object, from the key at i on
RECURSIVE MemberKeys(_, _)
MemberKeys(b, i) ==
    IF b[i] = 125 THEN {}
    ELSE {UnquoteFrom(b, i + 1)}
         \cup MemberKeys(b, NextMember(b, SkipWS(b,
                  ScanValue(b, SkipWS(b, SkipWS(b, ScanStr(b, i + 1)) + 1), 1))))

IsObject(b) == JsonValid(b) /\ b[SkipWS(b, 1)] = 123

ObjectKeys(b) == MemberKeys(b, SkipWS(b, SkipWS(b, 1) + 1))

Unmarshals == {"U64.UnmarshalJSON", "HexBytes.UnmarshalJSON", "GUID.UnmarshalJSON"}

----------------------------------------------------------------------------
(* The claims *)

\* C1: for every uint64 v, U64 decode of what U64 encode returns for v succeeds
\* and yields v, whatever the receiver held before.
C1_U64RoundTrip ==
    op = "U64.MarshalJSON" =>
        \A old \in {Zero64, MaxUint64} :
            /\ U64_UnmarshalJSON(old, out).ret = "nil"
            /\ U64_UnmarshalJSON(old, out).u = u

C1_Witness ==
    /\ op = "U64.UnmarshalJSON"
    /\ in = Quote(max_u64)
    /\ out = in
    /\ ret = "nil"
    /\ u = MaxUint64

\* C2: for every byte sequence b, HexBytes encode returns the 0x-prefixed
\* lower-case hex text of b as a JSON string, and HexBytes decode of it succeeds
\* and yields b; the empty sequence is written "0x".
C2_HexBytesRoundTrip ==
    op = "HexBytes.MarshalJSON" =>
        /\ IsQuoted0xHex(out, hb)
        /\ \A old \in {<<>>, <<1>>} :
             /\ HexBytes_UnmarshalJSON(old, out).ret = "nil"
             /\ HexBytes_UnmarshalJSON(old, out).hb = hb

C2_Witness ==
    /\ op = "HexBytes.UnmarshalJSON"
    /\ out = <<34, 48, 120, 34>>
    /\ in = out
    /\ ret = "nil"
    /\ hb = <<>>

\* C3, as the claim has it: for every byte sequence b, HexBytes decode of the hex
\* text of b and of the base64 text of b both succeed and yield b.
C3_Original ==
    op = "HexBytes.UnmarshalJSON" =>
        \A bs \in ByteSeqs :
            (in = HexTextOf[bs] \/ in = Base64TextOf[bs]) => (ret = "nil" /\ hb = bs)

\* C3, amended: decode of the 0x-prefixed hex text of b yields b; decode of the
\* base64 text of b yields b exactly when that text does not start with 0x and
\* is not a run of hex digits, and otherwise the text is read as hex and decode
\* fails or yields other bytes.
C3_Amended ==
    op = "HexBytes.UnmarshalJSON" =>
        \A bs \in ByteSeqs :
            /\ in = HexTextOf[bs] => (ret = "nil" /\ hb = bs)
            /\ in = Base64TextOf[bs] =>
                 ((ret = "nil" /\ hb = bs) <=> ~ReadAsHex(Base64EncodeToString(bs)))

C3_Witness ==
    /\ op = "HexBytes.UnmarshalJSON"
    /\ in = <<34, 69, 103, 61, 61, 34>>
    /\ ret = "nil"
    /\ hb = <<18>>

\* C4: GUID decode of an object without creation_number, or without
\* account_address, fails with an error.
C4_MissingFieldFails ==
    (op = "GUID.UnmarshalJSON" /\ IsObject(in)
        /\ ~({creation_number, account_address} \subseteq ObjectKeys(in)))
    => ret = "error"

\* C5, as the claim has it: HexBytes decode of "0x" yields the empty sequence and
\* decode of "" fails with an error.
C5_Original ==
    op = "HexBytes.UnmarshalJSON" =>
        /\ in = <<34, 48, 120, 34>> => (ret = "nil" /\ hb = <<>>)
        /\ in = <<34, 34>> => ret = "error"

\* C5, amended: HexBytes decode of "0x" and of "" both succeed and yield the
\* empty byte sequence.
C5_Amended ==
    op = "HexBytes.UnmarshalJSON" =>
        /\ in = <<34, 48, 120, 34>> => (ret = "nil" /\ hb = <<>>)
        /\ in = <<34, 34>> => (ret = "nil" /\ hb = <<>>)

C5_Witness ==
    /\ op = "HexBytes.UnmarshalJSON"
    /\ in = <<34, 34>>
    /\ calls = <<"json", "ParseHex">>
    /\ ret = "nil"
    /\ hb = <<>>

\* the literal U64 decode parses: the string of a token between double quotes,
\* the token itself otherwise
U64LiteralIsValid(b) ==
    IF Len(b) > 0 /\ b[1] = 34 /\ b[Len(b)] = 34
    THEN JsonUnmarshalString(b).err = "nil" /\ ValidU64Literal(JsonUnmarshalString(b).str)
    ELSE ValidU64Literal(b)

U64Literal(b) ==
    IF Len(b) > 0 /\ b[1] = 34 /\ b[Len(b)] = 34 THEN JsonUnmarshalString(b).str ELSE b

\* C6: U64 decode succeeds exactly on the literals that are base-10 integers of
\* at most 2^64 - 1, with that value, and on every other literal (an empty one,
\* one with another character or with white space, one above 2^64 - 1) it
\* returns an error.
C6_U64Literals ==
    op = "U64.UnmarshalJSON" =>
        /\ U64LiteralIsValid(in) =>
             (ret = "nil" /\ FormatUint(u) = TrimZeros(U64Literal(in)))
        /\ ~U64LiteralIsValid(in) => ret = "error"

\* C6 for the tokens of one byte or more
C6_NonEmptyTokens == in # <<>> => C6_U64Literals

\* C7: for every uint64 v, decode of the bare number of v and decode of the
\* quoted string of v yield v, and encode of v, alone or as the creation_number
\* of a GUID, is the quoted decimal string of v.
C7_QuotedDecimal ==
    /\ live = "U64" =>
         \A t \in {FormatUint(u), Quote(FormatUint(u))} :
             /\ U64_UnmarshalJSON(Zero64, t).ret = "nil"
             /\ U64_UnmarshalJSON(MaxUint64, t).u = u
    /\ op = "U64.MarshalJSON" => IsQuotedDecimal(out, u)
    /\ op = "GUID.MarshalJSON" =>
         \E n \in 3..22 :
             /\ HasPrefix(out, <<123>> \o Quote(creation_number) \o <<58>>)
             /\ IsQuotedDecimal(SubSeq(out, 20, 19 + n), g.CreationNumber)
             /\ At(out, 20 + n) = 44

C7_Witness ==
    /\ op = "GUID.MarshalJSON"
    /\ g.CreationNumber = <<7, 0, 0, 0>>
    /\ SubSeq(out, 20, 22) = Quote(D(<<7>>))

\* the decoders called, the return and the receiver for a string str, given what
\* hex and base64 make of str
C8_Decide(str, hx, b64) ==
    IF HasPrefix(str, <<48, 120>>) THEN
        /\ calls = <<"json", "ParseHex">>
        /\ ret = (IF hx.err = "nil" THEN "nil" ELSE "error")
        /\ ret = "nil" => hb = hx.bytes
    ELSE IF HasSuffix(str, <<61>>) THEN
        /\ calls = <<"json", "base64">>
        /\ ret = (IF b64.err = "nil" THEN "nil" ELSE "error")
        /\ ret = "nil" => hb = b64.bytes
    ELSE IF hx.err = "nil" THEN
        /\ calls = <<"json", "ParseHex">>
        /\ ret = "nil"
        /\ hb = hx.bytes
    ELSE
        /\ calls = <<"json", "ParseHex", "base64">>
        /\ ret = (IF b64.err = "nil" THEN "nil" ELSE "error")
        /\ ret = "nil" => hb = b64.bytes

\* C8: HexBytes decode chooses its decoder in a fixed order: a string that
\* starts with 0x goes to hex alone, otherwise one that ends with = goes to
\* base64 alone, otherwise hex is tried and base64 only after hex failed; decode
\* fails only when every decoder it tried failed.
C8_DecisionTable ==
    (op = "HexBytes.UnmarshalJSON" /\ JsonUnmarshalString(in).err = "nil") =>
        C8_Decide(JsonUnmarshalString(in).str, ParseHex(JsonUnmarshalString(in).str),
                  Base64DecodeString(JsonUnmarshalString(in).str))

\* "0000" is hex and base64: the hex reading is the result, base64 is not tried
C8_Witness ==
    /\ op = "HexBytes.UnmarshalJSON"
    /\ in = <<34, 48, 48, 48, 48, 34>>
    /\ calls = <<"json", "ParseHex">>
    /\ hb = <<0, 0>>

\* C9: every decode returns, with a value or with an error; none panics.
C9_NoPanic == op \in Unmarshals => ret \in {"nil", "error"}

\* a step into a decode that returned an error changes no receiver
C10_ErrorKeeps ==
    (op' \in Unmarshals /\ ret' = "error") => (u' = u /\ hb' = hb /\ g' = g)

\* after a decode that succeeded the receiver is what any other receiver would
\* hold after the same call
C10_InputDecides ==
    /\ (op = "U64.UnmarshalJSON" /\ ret = "nil") =>
         \A old \in U64Inits : U64_UnmarshalJSON(old, in).u = u
    /\ (op = "HexBytes.UnmarshalJSON" /\ ret = "nil") =>
         \A old \in {<<>>, <<1>>} : HexBytes_UnmarshalJSON(old, in).hb = hb
    /\ (op = "GUID.UnmarshalJSON" /\ ret = "nil") =>
         \A old \in GUIDInits : GUID_UnmarshalJSON(old, in).g = g

\* C10: a decode that returns an error leaves the receiver as it was, and a
\* decode that succeeds leaves what the input alone decides.
C10_AllOrNothing == [](C10_InputDecides) /\ [][C10_ErrorKeeps]_vars

\* creation_number decodes, account_address does not: the GUID keeps both fields
C10_Witness ==
    /\ op = "GUID.UnmarshalJSON"
    /\ in = RenderObject(<<<<creation_number, Quote(D(<<3>>))>>,
                           <<account_address, Quote(<<122, 122>>)>>>>)
    /\ ret = "error"
    /\ g = [CreationNumber |-> <<5, 0, 0, 0>>, AccountAddress |-> <<98>>]

====
